---- MODULE Spec2Model ----
(***************************************************************************)
(* The shadow CLI.  Event-log decoder (cli/src/core/decode): the type       *)
(* resolver (param.rs), the ABI word decoder used through ethabi::decode   *)
(* and ethabi::decode_whole, the token renderer (token.rs) and the log     *)
(* assembler decode_log (event.rs).  Commands: parse_contract_string and   *)
(* Deploy::run (cmd/deploy.rs, core/deploy.rs), LocalShadowStore           *)
(* (resources/shadow.rs), Events::run                                      *)
(* (core/actions/events.rs) and the block replay of Fork                   *)
(* (core/actions/fork.rs).  Each command has its own specification; the    *)
(* variables of the other commands keep their idle values in it.           *)
(*                                                                         *)
(* Byte strings are sequences of 0..255.  Rendered strings are sequences   *)
(* of code points.  A Result is a record with field ok.                    *)
(***************************************************************************)
EXTENDS Integers, Sequences, FiniteSets, TLC

VARIABLES
    \* decode_log: the schema, the log, the build of serde_json, the result
    event, log, preserve_order, result,
    \* the position of the running command
    pc,
    \* Deploy: the argument "contract" and what parse_contract_string made of it
    contract, parsed,
    \* Deploy::run: the node service of the temporary fork ("none" before
    \* start_anvil, then "running", "aborted" after abort()) and the result
    node_service, deploy_result,
    \* LocalShadowStore: the file shadow.json, the last call and its result
    shadow_json, store_call, store_result,
    \* Events::run: the logs still to be delivered, the logs passed to on_log,
    \* the lines printed and the warnings logged
    stream, handled, stdout, warnings,
    \* Fork: its fields, the block delivered by the subscription, the calls
    \* made to the fork and the result of replay_block
    all_txs, shadow_contracts, block, calls, replay_result,
    \* Fork::run: the blocks the subscription delivers after `block`, and for
    \* every replay_block that has returned the number of its block and its result
    blocks, replayed

DecoderVars == <<event, log, preserve_order, result>>
DeployVars == <<contract, parsed, node_service, deploy_result>>
StoreVars == <<shadow_json, store_call, store_result>>
EventsVars == <<stream, handled, stdout, warnings>>
ForkVars == <<all_txs, shadow_contracts, block, calls, replay_result, blocks, replayed>>

vars == <<DecoderVars, pc, DeployVars, StoreVars, EventsVars, ForkVars>>

-----------------------------------------------------------------------------
(* Bounds of the model *)

\* longest generic topic list of a log, topic 0 included
MaxTopics == 3
\* longest generic data buffer of a log, in 32-byte words
MaxDataWords == 2
\* longest argument "contract" of the deploy command, in characters
MaxContractLen == 4
\* most contracts stored in shadow.json
MaxStored == 3
\* most logs delivered by the subscription of Events::run
MaxStream == 3
\* most transactions of a replayed block
MaxTxs == 2
\* most blocks delivered by the subscription of Fork::run
MaxBlocks == 2

-----------------------------------------------------------------------------
(* Bytes and words *)

WORD == 32

ZeroBytes(k) == [i \in 1..k |-> 0]

\* a 32-byte big-endian word whose low bytes are given
WordOf(low) == ZeroBytes(WORD - Len(low)) \o low

\* a 32-byte word whose high bytes are given (right padded, as bytesN / string content)
WordOfHigh(high) == high \o ZeroBytes(WORD - Len(high))

RECURSIVE Flatten(_)
Flatten(ws) == IF ws = <<>> THEN <<>> ELSE Head(ws) \o Flatten(Tail(ws))

AddrFrom == <<115, 237, 225, 58, 185, 194, 139, 196, 48, 46, 148, 193, 209, 231, 247, 85, 152, 138, 145, 88>>
AddrTo == <<145, 54, 69, 22, 211, 202, 209, 110, 22, 102, 38, 29, 189, 187, 57, 200, 129, 219, 233, 238>>

W0 == WordOf(<<>>)
W1 == WordOf(<<1>>)
W2 == WordOf(<<2>>)
W32 == WordOf(<<32>>)
W64 == WordOf(<<64>>)
WFrom == WordOf(AddrFrom)
WTo == WordOf(AddrTo)
\* 69000000000000000000 = 0x3bd913e6c1df40000, above 2^64
WBig == WordOf(<<3, 189, 145, 62, 108, 29, 244, 0, 0>>)
\* a hash-like word with no zero byte in front
WHash == [i \in 1..WORD |-> IF i = 1 THEN 15 ELSE (i * 37) % 256]
\* the two bytes "hi", right padded
WHi == WordOfHigh(<<104, 105>>)
\* event selectors
WSelA == [i \in 1..WORD |-> IF i = 1 THEN 221 ELSE (i * 11) % 256]
WSelB == [i \in 1..WORD |-> IF i = 1 THEN 158 ELSE (i * 7) % 256]

-----------------------------------------------------------------------------
(* Results *)

Ok(x) == [ok |-> TRUE, v |-> x]
Err(e) == [ok |-> FALSE, err |-> e]

\* the operator "?": an error is returned at once, a value goes on to F
AndThen(r, F(_)) == IF r.ok THEN F(r.v) ELSE r

-----------------------------------------------------------------------------
(* Type descriptors: DynSolType and ethabi::ParamType share one shape,      *)
(* [t: variant, n: width or length, e: element / field types]              *)

Ty(t, n, e) == [t |-> t, n |-> n, e |-> e]
TAddress == Ty("Address", 0, <<>>)
TBool == Ty("Bool", 0, <<>>)
TString == Ty("String", 0, <<>>)
TBytes == Ty("Bytes", 0, <<>>)
TFixedBytes(n) == Ty("FixedBytes", n, <<>>)
TInt(n) == Ty("Int", n, <<>>)
TUint(n) == Ty("Uint", n, <<>>)
TArray(e) == Ty("Array", 0, <<e>>)
TFixedArray(e, n) == Ty("FixedArray", n, <<e>>)
TTuple(fs) == Ty("Tuple", 0, fs)

(* A type string is kept by its parts: the root word k, its numeric suffix  *)
(* n (0 when there is none) and the array suffixes dims from the inside     *)
(* out, 0 standing for "[]" and N for "[N]": "uint256[][3]" is             *)
(* [k |-> "uint", n |-> 256, dims |-> <<0, 3>>].                          *)
TypeStr(k, n, dims) == [k |-> k, n |-> n, dims |-> dims]

\* str::ends_with("[]")
ends_with_brackets(ty) == ty.dims # <<>> /\ ty.dims[Len(ty.dims)] = 0

\* the root of a type string, parsed against the primitive grammar
parse_root(ty) ==
    CASE ty.k = "address" /\ ty.n = 0 -> Ok(TAddress)
      [] ty.k = "bool" /\ ty.n = 0 -> Ok(TBool)
      [] ty.k = "string" /\ ty.n = 0 -> Ok(TString)
      [] ty.k = "bytes" /\ ty.n = 0 -> Ok(TBytes)
      [] ty.k = "bytes" /\ ty.n \in 1..32 -> Ok(TFixedBytes(ty.n))
      [] ty.k = "uint" /\ ty.n = 0 -> Ok(TUint(256))
      [] ty.k = "int" /\ ty.n = 0 -> Ok(TInt(256))
      [] ty.k = "uint" /\ ty.n \in 8..256 /\ ty.n % 8 = 0 -> Ok(TUint(ty.n))
      [] ty.k = "int" /\ ty.n \in 8..256 /\ ty.n % 8 = 0 -> Ok(TInt(ty.n))
      [] OTHER -> Err("InvalidTypeString")

RECURSIVE wrap_dims(_, _)
wrap_dims(t, dims) ==
    IF dims = <<>> THEN t
    ELSE wrap_dims(IF Head(dims) = 0 THEN TArray(t) ELSE TFixedArray(t, Head(dims)),
                   Tail(dims))

\* str::parse::<DynSolType>()
parse(ty) == AndThen(parse_root(ty), LAMBDA root : Ok(wrap_dims(root, ty.dims)))

(* A parameter: [name, ty, indexed, components] *)
Param(name, ty, indexed, components) ==
    [name |-> name, ty |-> ty, indexed |-> indexed, components |-> components]

RECURSIVE to_dyn_sol_type(_)

\* mutant: the suffix "[]" of a parameter with components is not looked at
to_dyn_sol_type_no_array(p) ==
    IF Len(p.components) > 0
    THEN LET rs == [i \in 1..Len(p.components) |-> to_dyn_sol_type(p.components[i])]
         IN  IF \E i \in 1..Len(rs) : ~rs[i].ok
             THEN Err("InvalidTypeString")
             ELSE Ok(TTuple([i \in 1..Len(rs) |-> rs[i].v]))
    ELSE parse(p.ty)

to_dyn_sol_type(p) ==
    IF Len(p.components) > 0
    THEN LET rs == [i \in 1..Len(p.components) |-> to_dyn_sol_type(p.components[i])]
         IN  IF \E i \in 1..Len(rs) : ~rs[i].ok
             THEN Err("InvalidTypeString")
             ELSE LET tuple_parts == [i \in 1..Len(rs) |-> rs[i].v]
                  IN  IF ends_with_brackets(p.ty)
                      THEN Ok(TArray(TTuple(tuple_parts)))
                      ELSE Ok(TTuple(tuple_parts))
    ELSE parse(p.ty)

\* DynSolType -> ethabi::ParamType, variant by variant
RECURSIVE dyn_to_eth_abi_param_type(_)
dyn_to_eth_abi_param_type(d) ==
    CASE d.t = "Array" -> TArray(dyn_to_eth_abi_param_type(d.e[1]))
      [] d.t = "FixedArray" -> TFixedArray(dyn_to_eth_abi_param_type(d.e[1]), d.n)
      [] d.t = "Tuple" -> TTuple([i \in 1..Len(d.e) |-> dyn_to_eth_abi_param_type(d.e[i])])
      [] d.t = "Address" -> TAddress
      [] d.t = "Bool" -> TBool
      [] d.t = "Bytes" -> TBytes
      [] d.t = "String" -> TString
      [] d.t = "Int" -> TInt(d.n)
      [] d.t = "Uint" -> TUint(d.n)
      [] d.t = "FixedBytes" -> TFixedBytes(d.n)

\* EventParam::to_eth_abi_param_type
to_eth_abi_param_type(p) ==
    AndThen(to_dyn_sol_type(p), LAMBDA dyn_sol_type : Ok(dyn_to_eth_abi_param_type(dyn_sol_type)))

-----------------------------------------------------------------------------
(* ethabi tokens: [t: variant, b: bytes of a scalar, a: member tokens]      *)

Tok(t, b, a) == [t |-> t, b |-> b, a |-> a]

\* ParamType::is_dynamic
RECURSIVE is_dynamic(_)
is_dynamic(param) ==
    CASE param.t \in {"Bytes", "String", "Array"} -> TRUE
      [] param.t = "FixedArray" -> is_dynamic(param.e[1])
      [] param.t = "Tuple" -> \E i \in 1..Len(param.e) : is_dynamic(param.e[i])
      [] OTHER -> FALSE

\* ParamType::is_empty_bytes_valid_encoding
is_empty_bytes_valid_encoding(param) ==
    CASE param.t = "FixedBytes" -> param.n = 0
      [] param.t = "FixedArray" -> param.n = 0
      [] OTHER -> FALSE

\* decoder::peek / take_bytes: len bytes of data from offset
peek(data, offset, len) ==
    IF offset + len > Len(data) THEN Err("InvalidData")
    ELSE Ok(SubSeq(data, offset + 1, offset + len))

peek_32_bytes(data, offset) == peek(data, offset, 32)

\* decoder::as_usize: the low four bytes, the other 28 must be zero
as_usize(slice) ==
    IF \E i \in 1..28 : slice[i] # 0 THEN Err("InvalidData")
    ELSE Ok(((slice[29] * 256 + slice[30]) * 256 + slice[31]) * 256 + slice[32])

\* decoder::as_bool
as_bool(slice) ==
    IF \E i \in 1..31 : slice[i] # 0 THEN Err("InvalidData")
    ELSE Ok(slice[32] = 1)

\* String::from_utf8_lossy, the content as code points: a byte of ASCII is
\* its own code point, any other byte is taken as one malformed sequence
ReplacementChar == 65533
from_utf8_lossy(bytes) == [i \in 1..Len(bytes) |-> IF bytes[i] < 128 THEN bytes[i] ELSE ReplacementChar]

DecodeResult(token, new_offset) == Ok([token |-> token, new_offset |-> new_offset])

RECURSIVE decode_param(_, _, _)
RECURSIVE decode_each(_, _, _, _)

\* the loops "for param in types { decode_param(param, data, offset)? }":
\* the tokens decoded so far and the offset after the last one
decode_each(types, data, offset, tokens) ==
    IF types = <<>> THEN Ok([tokens |-> tokens, offset |-> offset])
    ELSE AndThen(decode_param(Head(types), data, offset),
                 LAMBDA res : decode_each(Tail(types), data, res.new_offset,
                                          Append(tokens, res.token)))

\* the word at offset read as a usize
usize_at(data, offset) == AndThen(peek_32_bytes(data, offset), LAMBDA slice : as_usize(slice))

\* head (offset word) of a dynamic tuple or fixed array: the tail it points to
dynamic_tail(data, offset) ==
    AndThen(usize_at(data, offset),
            LAMBDA o : IF o > Len(data) THEN Err("InvalidData")
                       ELSE Ok(SubSeq(data, o + 1, Len(data))))

\* length-prefixed payload of bytes / string
decode_bytes(data, offset) ==
    AndThen(usize_at(data, offset),
            LAMBDA dynamic_offset :
                AndThen(usize_at(data, dynamic_offset),
                        LAMBDA len : peek(data, dynamic_offset + 32, len)))

\* the members of a tuple or fixed array of the given types, at offset of data
\* when static and behind the offset word when dynamic
decode_members(variant, types, dyn, data, offset) ==
    AndThen(IF dyn THEN dynamic_tail(data, offset) ELSE Ok(data),
            LAMBDA tail :
                AndThen(decode_each(types, tail, IF dyn THEN 0 ELSE offset, <<>>),
                        LAMBDA res : DecodeResult(Tok(variant, <<>>, res.tokens),
                                                  IF dyn THEN offset + 32 ELSE res.offset)))

decode_param(param, data, offset) ==
    CASE param.t = "Address" ->
            AndThen(peek_32_bytes(data, offset),
                    LAMBDA slice : DecodeResult(Tok("Address", SubSeq(slice, 13, 32), <<>>), offset + 32))
      [] param.t \in {"Int", "Uint"} ->
            AndThen(peek_32_bytes(data, offset),
                    LAMBDA slice : DecodeResult(Tok(param.t, slice, <<>>), offset + 32))
      [] param.t = "Bool" ->
            AndThen(peek_32_bytes(data, offset),
                    LAMBDA slice :
                        AndThen(as_bool(slice),
                                LAMBDA b : DecodeResult(Tok("Bool", <<IF b THEN 1 ELSE 0>>, <<>>), offset + 32)))
      [] param.t = "FixedBytes" ->
            AndThen(peek(data, offset, param.n),
                    LAMBDA bytes : DecodeResult(Tok("FixedBytes", bytes, <<>>), offset + 32))
      [] param.t = "Bytes" ->
            AndThen(decode_bytes(data, offset),
                    LAMBDA bytes : DecodeResult(Tok("Bytes", bytes, <<>>), offset + 32))
      [] param.t = "String" ->
            AndThen(decode_bytes(data, offset),
                    LAMBDA bytes : DecodeResult(Tok("String", from_utf8_lossy(bytes), <<>>), offset + 32))
      [] param.t = "Array" ->
            AndThen(usize_at(data, offset),
                    LAMBDA len_offset :
                        AndThen(usize_at(data, len_offset),
                                LAMBDA len :
                                    AndThen(decode_each([i \in 1..len |-> param.e[1]],
                                                        SubSeq(data, len_offset + 33, Len(data)), 0, <<>>),
                                            LAMBDA res : DecodeResult(Tok("Array", <<>>, res.tokens), offset + 32))))
      [] param.t = "FixedArray" ->
            decode_members("FixedArray", [i \in 1..param.n |-> param.e[1]], is_dynamic(param), data, offset)
      [] param.t = "Tuple" ->
            decode_members("Tuple", param.e, is_dynamic(param), data, offset)

\* decoder::decode_offset
decode_offset(types, data) ==
    IF (\E i \in 1..Len(types) : ~is_empty_bytes_valid_encoding(types[i])) /\ data = <<>>
    THEN Err("InvalidName")
    ELSE decode_each(types, data, 0, <<>>)

\* ethabi::decode: bytes left over are accepted
ethabi_decode(types, data) ==
    AndThen(decode_offset(types, data), LAMBDA res : Ok(res.tokens))

\* ethabi::decode_whole: bytes left over are an error
ethabi_decode_whole(types, data) ==
    AndThen(decode_offset(types, data),
            LAMBDA res : IF res.offset # Len(data) THEN Err("InvalidData") ELSE Ok(res.tokens))

-----------------------------------------------------------------------------
(* Strings are sequences of code points *)

Chr0 == 48
ChrTrue == <<116, 114, 117, 101>>
ChrFalse == <<102, 97, 108, 115, 101>>
Chr0x == <<48, 120>>
ChrComma == <<44>>

\* one lowercase hex digit
hex_digit(d) == IF d < 10 THEN 48 + d ELSE 87 + d

\* hex::encode, and {:x} of a fixed hash: two lowercase digits per byte
hex_encode(bytes) ==
    [i \in 1..(2 * Len(bytes)) |->
        IF i % 2 = 1 THEN hex_digit(bytes[(i + 1) \div 2] \div 16)
        ELSE hex_digit(bytes[i \div 2] % 16)]

is_zero(bytes) == \A i \in 1..Len(bytes) : bytes[i] = 0

\* the digits without the zeros in front
strip_zeros(digits) ==
    IF \A i \in 1..Len(digits) : digits[i] = Chr0 THEN <<>>
    ELSE LET first == CHOOSE i \in 1..Len(digits) :
                          digits[i] # Chr0 /\ \A j \in 1..(i - 1) : digits[j] = Chr0
         IN  SubSeq(digits, first, Len(digits))

\* {:x} of a U256: lowercase hex, no leading zero, "0" for zero
u256_lower_hex(bytes) ==
    IF is_zero(bytes) THEN <<Chr0>> ELSE strip_zeros(hex_encode(bytes))

\* U256 / 10000 and U256 % 10000 on the big-endian bytes, by long division
div_mod_10000(bytes) ==
    LET rem[i \in 0..Len(bytes)] ==
            IF i = 0 THEN 0 ELSE (rem[i - 1] * 256 + bytes[i]) % 10000
    IN  [q |-> [i \in 1..Len(bytes) |-> (rem[i - 1] * 256 + bytes[i]) \div 10000],
         r |-> rem[Len(bytes)]]

\* the value in base 10000, most significant group first
RECURSIVE u256_groups(_)
u256_groups(current) ==
    IF is_zero(current) THEN <<>>
    ELSE Append(u256_groups(div_mod_10000(current).q), div_mod_10000(current).r)

\* the four decimal digits of one group
group_digits(g) ==
    <<Chr0 + (g \div 1000), Chr0 + ((g \div 100) % 10), Chr0 + ((g \div 10) % 10), Chr0 + (g % 10)>>

\* mutant: the number printed with {:x}, as ethabi prints it
u256_display_hex(bytes) == u256_lower_hex(bytes)

\* {} of a U256: base 10, no leading zero, "0" for zero
u256_display(bytes) ==
    IF is_zero(bytes) THEN <<Chr0>>
    ELSE LET groups == u256_groups(bytes)
         IN  strip_zeros([i \in 1..(4 * Len(groups)) |->
                             group_digits(groups[(i + 3) \div 4])[((i - 1) % 4) + 1]])

RECURSIVE join(_, _)
join(strs, sep) ==
    IF strs = <<>> THEN <<>>
    ELSE IF Len(strs) = 1 THEN strs[1]
    ELSE strs[1] \o sep \o join(Tail(strs), sep)

\* fmt::Display of ethabi::Token
RECURSIVE ethabi_token_display(_)
ethabi_token_display(token) ==
    CASE token.t = "Bool" -> IF token.b[1] = 1 THEN ChrTrue ELSE ChrFalse
      [] token.t = "String" -> token.b
      [] token.t = "Address" -> hex_encode(token.b)
      [] token.t \in {"Bytes", "FixedBytes"} -> hex_encode(token.b)
      [] token.t \in {"Uint", "Int"} -> u256_lower_hex(token.b)
      [] token.t \in {"Array", "FixedArray"} ->
            <<91>> \o join([i \in 1..Len(token.a) |-> ethabi_token_display(token.a[i])], ChrComma) \o <<93>>
      [] token.t = "Tuple" ->
            <<40>> \o join([i \in 1..Len(token.a) |-> ethabi_token_display(token.a[i])], ChrComma) \o <<41>>

\* mutant: the address printed without the 0x prefix
token_display_no_prefix(token) ==
    IF token.t = "Address" THEN hex_encode(token.b) ELSE ethabi_token_display(token)

\* fmt::Display of the wrapper Token
token_display(token) ==
    CASE token.t = "Bool" -> IF token.b[1] = 1 THEN ChrTrue ELSE ChrFalse
      [] token.t = "String" -> token.b
      [] token.t = "Address" -> Chr0x \o hex_encode(token.b)
      [] token.t \in {"Bytes", "FixedBytes"} -> hex_encode(token.b)
      [] token.t \in {"Uint", "Int"} -> u256_display(token.b)
      [] token.t \in {"Array", "FixedArray"} ->
            <<91>> \o join([i \in 1..Len(token.a) |-> ethabi_token_display(token.a[i])], ChrComma) \o <<93>>
      [] token.t = "Tuple" ->
            <<40>> \o join([i \in 1..Len(token.a) |-> ethabi_token_display(token.a[i])], ChrComma) \o <<41>>

\* Token::into_tokens (Tokenize): the members of a tuple, any other token alone
into_tokens(token) == IF token.t = "Tuple" THEN token.a ELSE <<token>>

-----------------------------------------------------------------------------
(* serde_json values: [j: kind, s: string, a: array items, o: object entries] *)

JStr(s) == [j |-> "str", s |-> s, a |-> <<>>, o |-> <<>>]
JArr(a) == [j |-> "arr", s |-> <<>>, a |-> a, o |-> <<>>]
JObj(o) == [j |-> "obj", s |-> <<>>, a |-> <<>>, o |-> o]
JNull == [j |-> "null", s |-> <<>>, a |-> <<>>, o |-> <<>>]

\* the names of the model in the order of str::cmp
NameOrder == <<"", "amount", "from", "itemType", "offer", "to", "token", "value", "x", "y">>
NameRank(name) == CHOOSE i \in 1..Len(NameOrder) : NameOrder[i] = name

map_has(map, k) == \E i \in 1..Len(map) : map[i].k = k
map_index(map, k) == CHOOSE i \in 1..Len(map) : map[i].k = k
map_get(map, k) == map[map_index(map, k)].v
map_keys(map) == [i \in 1..Len(map) |-> map[i].k]

(* serde_json::Map::insert.  An existing key keeps its place and takes the  *)
(* new value.  A new key goes to the end when serde_json is built with      *)
(* preserve_order (IndexMap) and to its sorted place otherwise (BTreeMap).  *)
map_insert(map, k, v) ==
    IF map_has(map, k)
    THEN [map EXCEPT ![map_index(map, k)] = [k |-> k, v |-> v]]
    ELSE IF preserve_order
    THEN Append(map, [k |-> k, v |-> v])
    ELSE LET before == SelectSeq(map, LAMBDA en : NameRank(en.k) < NameRank(k))
             after == SelectSeq(map, LAMBDA en : NameRank(en.k) > NameRank(k))
         IN  before \o <<[k |-> k, v |-> v]>> \o after

-----------------------------------------------------------------------------
(* Value renderer: ParamAndValue::to_value *)

\* Param::is_complex_type
is_complex_type(param) == Len(param.components) > 0

Min(a, b) == IF a < b THEN a ELSE b

RECURSIVE to_value(_, _)
RECURSIVE to_value_fields(_, _, _, _)

\* mutant: the fields paired with the components from the other end
to_value_fields_reversed(param_components, nested_values, i, acc) ==
    IF i > Min(Len(param_components), Len(nested_values)) THEN acc
    ELSE to_value_fields(param_components, nested_values, i + 1,
                         map_insert(acc, param_components[i].name,
                                    to_value(param_components[i],
                                             nested_values[Len(nested_values) + 1 - i])))

\* the fold over param_components.zip(nested_values), from pair i on
to_value_fields(param_components, nested_values, i, acc) ==
    IF i > Min(Len(param_components), Len(nested_values)) THEN acc
    ELSE to_value_fields(param_components, nested_values, i + 1,
                         map_insert(acc, param_components[i].name,
                                    to_value(param_components[i], nested_values[i])))

\* mutant: an array of complex values handled as one complex value
to_value_no_array(param, value) ==
    IF is_complex_type(param)
    THEN JObj(to_value_fields(param.components, into_tokens(value), 1, <<>>))
    ELSE IF value.t = "Array"
         THEN JArr([i \in 1..Len(value.a) |-> JStr(ethabi_token_display(value.a[i]))])
         ELSE JStr(token_display(value))

to_value(param, value) ==
    IF is_complex_type(param)
    THEN IF value.t = "Array"
         THEN JArr([i \in 1..Len(value.a) |-> to_value(param, value.a[i])])
         ELSE JObj(to_value_fields(param.components, into_tokens(value), 1, <<>>))
    ELSE IF value.t = "Array"
         THEN JArr([i \in 1..Len(value.a) |-> JStr(ethabi_token_display(value.a[i]))])
         ELSE JStr(token_display(value))

-----------------------------------------------------------------------------
(* Log assembler *)

\* the loop "for param in params { types.push(param.to_eth_abi_param_type()?) }"
build_types(params) ==
    LET rs == [i \in 1..Len(params) |-> to_eth_abi_param_type(params[i])]
    IN  IF \E i \in 1..Len(rs) : ~rs[i].ok THEN Err("InvalidTypeString")
        ELSE Ok([i \in 1..Len(rs) |-> rs[i].v])

\* the loop that builds the map of one group of parameters, from entry i on
RECURSIVE build_map(_, _, _, _)
build_map(params, tokens, i, map) ==
    IF i > Len(params) THEN map
    ELSE build_map(params, tokens, i + 1,
                   map_insert(map, params[i].name, to_value(params[i], tokens[i])))

indexed_params(ev) == SelectSeq(ev.inputs, LAMBDA input : input.indexed)
non_indexed_params(ev) == SelectSeq(ev.inputs, LAMBDA input : ~input.indexed)

\* mutant: topic 0 is not skipped
topic_bytes_no_skip(l) == Flatten(l.topics)

\* log.topics.iter().skip(1).flat_map(|t| t.as_bytes())
topic_bytes(l) == IF l.topics = <<>> THEN <<>> ELSE Flatten(Tail(l.topics))

\* the indexed parameters: types, decode_whole of the topics after the
\* selector, one entry per parameter
decode_topics(l, ev) ==
    AndThen(build_types(indexed_params(ev)),
            LAMBDA ethabi_types :
                AndThen(ethabi_decode_whole(ethabi_types, topic_bytes(l)),
                        LAMBDA tokens :
                            Ok(JObj(build_map(indexed_params(ev), tokens, 1, <<>>)))))

\* the other parameters: types, decode of the data, one entry per parameter
decode_data(l, ev) ==
    AndThen(build_types(non_indexed_params(ev)),
            LAMBDA eth_abi_types :
                AndThen(ethabi_decode(eth_abi_types, l.data),
                        LAMBDA tokens :
                            Ok(JObj(build_map(non_indexed_params(ev), tokens, 1, <<>>)))))

RECURSIVE merge(_, _)
RECURSIVE merge_entries(_, _)

\* "for (k, v) in b { merge(a.entry(k).or_insert(Value::Null), v) }"
merge_entries(a, b) ==
    IF b = <<>> THEN a
    ELSE LET k == Head(b).k
             v == Head(b).v
             a1 == IF map_has(a, k) THEN a ELSE map_insert(a, k, JNull)
             i == map_index(a1, k)
         IN  merge_entries([a1 EXCEPT ![i].v = merge(a1[i].v, v)], Tail(b))

\* mutant: the second value replaces the first
merge_overwrite(a, b) == b

merge(a, b) ==
    IF a.j = "obj" /\ b.j = "obj" THEN JObj(merge_entries(a.o, b.o)) ELSE b

decode_log(l, ev) ==
    AndThen(decode_topics(l, ev),
            LAMBDA topics :
                AndThen(decode_data(l, ev), LAMBDA data : Ok(merge(topics, data))))

-----------------------------------------------------------------------------
(* Event schemas of the model *)

SAddress == TypeStr("address", 0, <<>>)
SBool == TypeStr("bool", 0, <<>>)
SString == TypeStr("string", 0, <<>>)
SBytes == TypeStr("bytes", 0, <<>>)
SBytes32 == TypeStr("bytes", 32, <<>>)
SBytes2 == TypeStr("bytes", 2, <<>>)
SUint256 == TypeStr("uint", 256, <<>>)
SUint8 == TypeStr("uint", 8, <<>>)
SUint256Array == TypeStr("uint", 256, <<0>>)
SAddressArray == TypeStr("address", 0, <<0>>)
STuple == TypeStr("tuple", 0, <<>>)
STupleArray == TypeStr("tuple", 0, <<0>>)
\* "uint7": a width that is no multiple of 8
SUint7 == TypeStr("uint", 7, <<>>)

Event(inputs) == [inputs |-> inputs]

\* components of the tuples
ItemComponents == <<Param("itemType", SUint8, FALSE, <<>>), Param("token", SAddress, FALSE, <<>>)>>
PairComponents == <<Param("token", SAddress, FALSE, <<>>), Param("amount", SUint256, FALSE, <<>>)>>
NestedComponents == <<Param("amount", SUint256, FALSE, <<>>),
                      Param("offer", STupleArray, FALSE, <<Param("token", SAddress, FALSE, <<>>)>>)>>
DupComponents == <<Param("token", SAddress, FALSE, <<>>), Param("token", SUint256, FALSE, <<>>)>>

\* Transfer(address indexed from, address indexed to, uint256 value)
ETransfer == Event(<<Param("from", SAddress, TRUE, <<>>), Param("to", SAddress, TRUE, <<>>),
                     Param("value", SUint256, FALSE, <<>>)>>)
\* a non-indexed parameter declared before an indexed one
EInterleaved == Event(<<Param("value", SUint256, FALSE, <<>>), Param("from", SAddress, TRUE, <<>>),
                        Param("amount", SUint256, FALSE, <<>>)>>)
\* as OrderFulfilled: scalars around an array of tuples
EOrder == Event(<<Param("x", SBytes32, FALSE, <<>>), Param("from", SAddress, TRUE, <<>>),
                  Param("offer", STupleArray, FALSE, ItemComponents)>>)
ETupleArray == Event(<<Param("offer", STupleArray, FALSE, ItemComponents)>>)
ETuple == Event(<<Param("offer", STuple, FALSE, PairComponents)>>)
ENested == Event(<<Param("x", STuple, FALSE, NestedComponents)>>)
EUintArray == Event(<<Param("x", SUint256Array, FALSE, <<>>)>>)
EAddressArray == Event(<<Param("from", SAddress, TRUE, <<>>), Param("x", SAddressArray, FALSE, <<>>)>>)
EScalars == Event(<<Param("x", SBool, TRUE, <<>>), Param("y", SBytes2, TRUE, <<>>),
                    Param("value", SUint8, FALSE, <<>>), Param("token", SBytes32, FALSE, <<>>)>>)
EDynamic == Event(<<Param("x", SString, FALSE, <<>>), Param("y", SBytes, FALSE, <<>>)>>)
\* indexed parameters of dynamic type
EIndexedString == Event(<<Param("x", SString, TRUE, <<>>)>>)
EIndexedBytes == Event(<<Param("x", SBytes, TRUE, <<>>), Param("value", SUint256, FALSE, <<>>)>>)
EIndexedArray == Event(<<Param("x", SUint256Array, TRUE, <<>>)>>)
EIndexedTuple == Event(<<Param("x", STuple, TRUE, NestedComponents)>>)
\* an indexed and a non-indexed parameter of one name
ECollision == Event(<<Param("x", SAddress, TRUE, <<>>), Param("x", SUint256, FALSE, <<>>)>>)
ECollisionTuple == Event(<<Param("x", STuple, TRUE, <<Param("token", SAddress, FALSE, <<>>)>>),
                           Param("x", STuple, FALSE, <<Param("amount", SUint256, FALSE, <<>>)>>)>>)
\* two components of one name
EDupComponents == Event(<<Param("offer", STupleArray, FALSE, DupComponents)>>)
\* a type string outside the grammar
EBadType == Event(<<Param("from", SAddress, TRUE, <<>>), Param("x", SUint7, FALSE, <<>>)>>)
\* arrays of fixed length, "uint256[2]" and "tuple[2]" with components
EFixedArray == Event(<<Param("x", TypeStr("uint", 256, <<2>>), FALSE, <<>>)>>)
EFixedTupleArray == Event(<<Param("offer", TypeStr("tuple", 0, <<2>>), FALSE, PairComponents)>>)
\* a type string outside the grammar on a component, and on a parameter that has
\* components ("tuple7")
EBadComponent == Event(<<Param("from", SAddress, TRUE, <<>>),
                         Param("offer", STuple, FALSE, <<Param("token", SAddress, FALSE, <<>>),
                                                        Param("amount", SUint7, FALSE, <<>>)>>)>>)
ETuple7 == Event(<<Param("offer", TypeStr("tuple", 7, <<>>), FALSE, PairComponents)>>)
\* two non-indexed parameters of one name
EDupData == Event(<<Param("x", SUint256, FALSE, <<>>), Param("x", SAddress, FALSE, <<>>)>>)
ENoParams == Event(<<>>)
\* an indexed parameter of a static tuple type and a signed integer
EPairInt == Event(<<Param("offer", STuple, TRUE, PairComponents),
                    Param("value", TypeStr("int", 256, <<>>), FALSE, <<>>)>>)
\* "tuple[][]" with components
ETupleArray2 == Event(<<Param("offer", TypeStr("tuple", 0, <<0, 0>>), FALSE, PairComponents)>>)

EventSchemas ==
    {ETransfer, EInterleaved, EOrder, ETupleArray, ETuple, ENested, EUintArray, EAddressArray,
     EScalars, EDynamic, EIndexedString, EIndexedBytes, EIndexedArray, EIndexedTuple,
     ECollision, ECollisionTuple, EDupComponents, EBadType, EFixedArray, EFixedTupleArray,
     EBadComponent, ETuple7, EDupData, ENoParams, EPairInt, ETupleArray2}

-----------------------------------------------------------------------------
(* Logs of the model *)

SeqsUpTo(S, n) == UNION {[1..k -> S] : k \in 0..n}

Selectors == {WSelA, WSelB}
TopicWords == {W0, WFrom}
DataWords == {W32, WBig}
WMax == [i \in 1..32 |-> 255]

\* no topic at all, or the selector followed by up to MaxTopics - 1 words
GenericTopics ==
    {<<>>} \cup {<<WSelA>> \o rest : rest \in SeqsUpTo(TopicWords, MaxTopics - 1)}

SampleTopics ==
    {<<WSelA, WFrom, WTo>>, <<WSelA, WHash>>, <<WSelA, W1, WHi>>, <<WSelA, W32, W0>>}

GenericData == {Flatten(ws) : ws \in SeqsUpTo(DataWords, MaxDataWords)}

SampleData ==
    {Flatten(ws) : ws \in
        {<<W32, W2, W1, WFrom, W2, WTo>>,
         <<W32, W1, W2, WTo>>,
         <<WHash, W64, W2, W1, WFrom, W2, WTo>>,
         <<W32, W2, WBig, WMax>>,
         <<W32, W2, WHi>>,
         <<W64, W64, W2, WHi>>,
         <<W32, WBig, W64, W1, WFrom>>,
         <<W2, WHi>>,
         <<WFrom, WBig>>,
         <<WMax>>, <<W0>>,
         <<W32, W1, W32, W1, WFrom, WBig>>}}

Logs ==
    {[topics |-> t, data |-> d] : t \in GenericTopics \cup SampleTopics, d \in GenericData \cup SampleData}

-----------------------------------------------------------------------------
(* Deploy and Events commands: parse_contract_string *)

ChrColon == 58
ChrDot == 46

\* mutant: the string is split at the last separator
splitn_last(s, c) ==
    IF \E i \in 1..Len(s) : s[i] = c
    THEN LET i == CHOOSE i \in 1..Len(s) : s[i] = c /\ \A j \in (i + 1)..Len(s) : s[j] # c
         IN  <<SubSeq(s, 1, i - 1), SubSeq(s, i + 1, Len(s))>>
    ELSE <<s>>

\* str::splitn(2, c): the part before the first c and, when there is a c,
\* all that follows it
splitn(s, c) ==
    IF \E i \in 1..Len(s) : s[i] = c
    THEN LET i == CHOOSE i \in 1..Len(s) : s[i] = c /\ \A j \in 1..(i - 1) : s[j] # c
         IN  <<SubSeq(s, 1, i - 1), SubSeq(s, i + 1, Len(s))>>
    ELSE <<s>>

parse_contract_string(c) ==
    LET parts == splitn(c, ChrColon)
        file_name == parts[1]
        contract_name == IF Len(parts) > 1 THEN parts[2] ELSE splitn(file_name, ChrDot)[1]
    IN  <<file_name, contract_name>>

(* Deploy::get_runtime_bytecode: the calls made to the temporary fork, in   *)
(* order, and the result.  Call number outcome fails and is the last one    *)
(* made; outcome 7 is a receipt that is None, outcome 8 a receipt without   *)
(* contract address, outcome 0 success.                                     *)
get_runtime_bytecode(deployer_address, outcome) ==
    LET call(op, arg) == [op |-> op, arg |-> arg, block |-> <<0>>, ok |-> TRUE]
        planned == <<call("anvil_set_balance", deployer_address),
                     call("anvil_impersonate_account", deployer_address),
                     call("send_transaction", deployer_address),
                     call("evm_mine", 0),
                     call("transaction_receipt", 0),
                     call("get_code", 0)>>
    IN  IF outcome \in 1..Len(planned)
        THEN [calls |-> [k \in 1..outcome |->
                            IF k = outcome THEN [planned[k] EXCEPT !.ok = FALSE] ELSE planned[k]],
              result |-> Err("BlockchainError")]
        ELSE IF outcome = 7
        THEN [calls |-> SubSeq(planned, 1, 5), result |-> Err("Failed to get transaction receipt")]
        ELSE IF outcome = 8
        THEN [calls |-> SubSeq(planned, 1, 5), result |-> Err("Failed to get contract address")]
        ELSE [calls |-> planned, result |-> Ok("runtime_bytecode")]

\* the characters of the arguments of the model: a letter, the dot, the colon
ContractChars == {97, ChrDot, ChrColon}

-----------------------------------------------------------------------------
(* LocalShadowStore: the file shadow.json and upsert.  A ShadowContract is  *)
(* [file_name, contract_name, address, runtime_bytecode]; the file holds    *)
(* one object per contract, a list of <<key, value>> with the keys in       *)
(* camelCase.  The file is missing, empty (zero bytes) or present.          *)

\* serde_json::to_string of the contracts
to_string(contracts) ==
    [i \in 1..Len(contracts) |->
        <<(<<"fileName", contracts[i].file_name>>),
          <<"contractName", contracts[i].contract_name>>,
          <<"address", contracts[i].address>>,
          <<"runtimeBytecode", contracts[i].runtime_bytecode>>>>]

\* serde_json::from_str: every object must have the four fields
from_str(contents) ==
    LET has(o, k) == \E n \in 1..Len(o) : o[n][1] = k
        field(o, k) == o[CHOOSE n \in 1..Len(o) : o[n][1] = k][2]
        keys == {"fileName", "contractName", "address", "runtimeBytecode"}
    IN  IF \E i \in 1..Len(contents) : \E k \in keys : ~has(contents[i], k)
        THEN Err("missing field")
        ELSE Ok([i \in 1..Len(contents) |->
                    [file_name |-> field(contents[i], "fileName"),
                     contract_name |-> field(contents[i], "contractName"),
                     address |-> field(contents[i], "address"),
                     runtime_bytecode |-> field(contents[i], "runtimeBytecode")]])

\* the file after the call and the contracts read: a missing file is created as "[]"
read_from_file(file) ==
    CASE file.state = "missing" ->
            [file |-> [state |-> "present", contents |-> <<>>], result |-> Ok(<<>>)]
      [] file.state = "empty" -> [file |-> file, result |-> Err("EOF while parsing")]
      [] OTHER -> [file |-> file, result |-> from_str(file.contents)]

get_by_address(file, address) ==
    AndThen(read_from_file(file).result,
            LAMBDA contracts :
                IF \E i \in 1..Len(contracts) : contracts[i].address = address
                THEN Ok(contracts[CHOOSE i \in 1..Len(contracts) :
                                    /\ contracts[i].address = address
                                    /\ \A j \in 1..(i - 1) : contracts[j].address # address])
                ELSE Err("Contract not found"))

\* mutant: the contract is pushed whether its address is stored or not
upsert_push(file, shadow_contract, write_ok) ==
    LET read == read_from_file(file)
    IN  IF ~read.result.ok THEN read
        ELSE IF ~write_ok THEN [file |-> [state |-> "empty", contents |-> <<>>],
                                result |-> Err("write failed")]
        ELSE [file |-> [state |-> "present",
                        contents |-> to_string(Append(read.result.v, shadow_contract))],
              result |-> Ok(<<>>)]

\* the file after the call and the result; File::create has truncated the
\* file when write_all fails
upsert(file, shadow_contract, write_ok) ==
    LET read == read_from_file(file)
        contracts == read.result.v
        found == {i \in 1..Len(contracts) : contracts[i].address = shadow_contract.address}
        index == CHOOSE i \in found : \A j \in found : i <= j
    IN  IF ~read.result.ok THEN read
        ELSE IF ~write_ok THEN [file |-> [state |-> "empty", contents |-> <<>>],
                                result |-> Err("write failed")]
        ELSE [file |-> [state |-> "present",
                        contents |-> to_string(IF found # {}
                                               THEN [contracts EXCEPT ![index] = shadow_contract]
                                               ELSE Append(contracts, shadow_contract))],
              result |-> Ok(<<>>)]

-----------------------------------------------------------------------------
(* Events::on_log on a delivered log, [log, transaction_hash] with the hash  *)
(* an Option (<<>> or one word): what it returns and what it prints.  The   *)
(* hash is unwrapped after the decoding and before the first println.       *)
on_log(l, ev) ==
    LET decoded == decode_log(l.log, ev)
    IN  IF ~decoded.ok THEN [returns |-> "Err", err |-> decoded.err, printed |-> <<>>]
        ELSE IF l.transaction_hash = <<>> THEN [returns |-> "panic", err |-> "", printed |-> <<>>]
        ELSE [returns |-> "Ok", err |-> "",
              printed |-> <<[tx_hash |-> Chr0x \o hex_encode(l.transaction_hash[1]),
                             pretty |-> decoded.v]>>]

-----------------------------------------------------------------------------
(* Fork: replay of the blocks.  A transaction is [hash, from, to, receipt], *)
(* to an Option (<<>> or one address) and receipt what the provider answers *)
(* for the hash: "error", "none", or a receipt of status "success" (1),     *)
(* "failed" (0) or "no_status", or "foreign", a receipt of another hash.    *)
(* A block is [number, fetch, base_fee, transactions], number an Option     *)
(* (<<>> or one number) and fetch what get_block_with_txs answers: "ok",    *)
(* "none", "error".  A call to the fork is [op, arg, block, ok]: block is   *)
(* the number of the block whose replay made it (<<0>> before the loop), ok *)
(* whether it succeeded.                                                    *)

\* Fork::is_shadowed
is_shadowed(contracts, address) ==
    \E i \in 1..Len(contracts) : contracts[i].address = address

\* the HashMap of fetch_receipts: the hashes of the receipts received, each
\* with its status; any receipt that fails or is missing is an error
fetch_receipts(transactions) ==
    LET n == Len(transactions)
    IN  IF \E i \in 1..n : transactions[i].receipt = "error"
        THEN Err("Error getting transaction receipt")
        ELSE IF \E i \in 1..n : transactions[i].receipt = "none"
        THEN Err("Receipt not found.")
        ELSE Ok([h \in {transactions[i].hash : i \in {j \in 1..n : transactions[j].receipt # "foreign"}}
                    |-> transactions[CHOOSE i \in 1..n : transactions[i].hash = h].receipt])

\* mutant: the status of the receipt is not looked at
should_replay_any_status(all, contracts, tx, rcpts) ==
    \/ all
    \/ tx.to # <<>> /\ is_shadowed(contracts, Chr0x \o hex_encode(tx.to[1]))

\* Fork::should_replay
should_replay(all, contracts, tx, rcpts) ==
    IF all THEN TRUE
    ELSE LET shadowed == IF tx.to = <<>> THEN FALSE
                         ELSE is_shadowed(contracts, Chr0x \o hex_encode(tx.to[1]))
             is_success == IF tx.hash \in DOMAIN rcpts THEN rcpts[tx.hash] = "success" ELSE FALSE
         IN  shadowed /\ is_success

\* mutant: the transaction is sent before the balance of its sender is set
replay_block_send_first(all, contracts, b, fail_at) ==
    IF b.fetch = "error" THEN [calls |-> <<>>, result |-> Err("ProviderError")]
    ELSE IF b.fetch = "none" THEN [calls |-> <<>>, result |-> Err("Block not found")]
    ELSE LET call(op, arg) == [op |-> op, arg |-> arg, block |-> b.number, ok |-> TRUE]
             rcpts == fetch_receipts(b.transactions)
             sends == [i \in 1..Len(b.transactions) |->
                         IF should_replay(all, contracts, b.transactions[i], rcpts.v)
                         THEN <<call("send_raw_transaction", b.transactions[i].hash),
                                call("anvil_set_balance", b.transactions[i].from)>>
                         ELSE <<>>]
             planned == (IF b.base_fee
                         THEN <<call("anvil_set_next_block_base_fee_per_gas", 0)>>
                         ELSE <<>>)
                        \o <<call("evm_set_next_block_timestamp", 0)>>
                        \o Flatten(sends)
                        \o <<call("evm_mine", 0)>>
         IN  IF ~rcpts.ok THEN [calls |-> <<>>, result |-> rcpts]
             ELSE IF fail_at \in 1..Len(planned)
             THEN [calls |-> [k \in 1..fail_at |->
                                 IF k = fail_at THEN [planned[k] EXCEPT !.ok = FALSE]
                                 ELSE planned[k]],
                   result |-> Err("BlockchainError")]
             ELSE [calls |-> planned, result |-> Ok(<<>>)]

\* mutant: the receipts are fetched after the next block of the fork is set up
replay_block_fetch_late(all, contracts, b, fail_at) ==
    IF b.fetch = "error" THEN [calls |-> <<>>, result |-> Err("ProviderError")]
    ELSE IF b.fetch = "none" THEN [calls |-> <<>>, result |-> Err("Block not found")]
    ELSE LET call(op, arg) == [op |-> op, arg |-> arg, block |-> b.number, ok |-> TRUE]
             rcpts == fetch_receipts(b.transactions)
             setup == (IF b.base_fee
                       THEN <<call("anvil_set_next_block_base_fee_per_gas", 0)>>
                       ELSE <<>>)
                      \o <<call("evm_set_next_block_timestamp", 0)>>
             sends == [i \in 1..Len(b.transactions) |->
                         IF should_replay(all, contracts, b.transactions[i], rcpts.v)
                         THEN <<call("anvil_set_balance", b.transactions[i].from),
                                call("send_raw_transaction", b.transactions[i].hash)>>
                         ELSE <<>>]
             planned == setup \o Flatten(sends) \o <<call("evm_mine", 0)>>
         IN  IF ~rcpts.ok THEN [calls |-> setup, result |-> rcpts]
             ELSE IF fail_at \in 1..Len(planned)
             THEN [calls |-> [k \in 1..fail_at |->
                                 IF k = fail_at THEN [planned[k] EXCEPT !.ok = FALSE]
                                 ELSE planned[k]],
                   result |-> Err("BlockchainError")]
             ELSE [calls |-> planned, result |-> Ok(<<>>)]

(* Fork::replay_block: the calls made to the fork, in order, and the        *)
(* result.  Call number fail_at fails (0: none does); a failed call is the  *)
(* last one made.                                                           *)
replay_block(all, contracts, b, fail_at) ==
    IF b.fetch = "error" THEN [calls |-> <<>>, result |-> Err("ProviderError")]
    ELSE IF b.fetch = "none" THEN [calls |-> <<>>, result |-> Err("Block not found")]
    ELSE LET call(op, arg) == [op |-> op, arg |-> arg, block |-> b.number, ok |-> TRUE]
             rcpts == fetch_receipts(b.transactions)
             sends == [i \in 1..Len(b.transactions) |->
                         IF should_replay(all, contracts, b.transactions[i], rcpts.v)
                         THEN <<call("anvil_set_balance", b.transactions[i].from),
                                call("send_raw_transaction", b.transactions[i].hash)>>
                         ELSE <<>>]
             planned == (IF b.base_fee
                         THEN <<call("anvil_set_next_block_base_fee_per_gas", 0)>>
                         ELSE <<>>)
                        \o <<call("evm_set_next_block_timestamp", 0)>>
                        \o Flatten(sends)
                        \o <<call("evm_mine", 0)>>
         IN  IF ~rcpts.ok THEN [calls |-> <<>>, result |-> rcpts]
             ELSE IF fail_at \in 1..Len(planned)
             THEN [calls |-> [k \in 1..fail_at |->
                                 IF k = fail_at THEN [planned[k] EXCEPT !.ok = FALSE]
                                 ELSE planned[k]],
                   result |-> Err("BlockchainError")]
             ELSE [calls |-> planned, result |-> Ok(<<>>)]

(* The fork runs with --no-mining: a transaction that send_raw_transaction  *)
(* accepted waits in the pool until an evm_mine succeeds, which puts every  *)
(* waiting transaction into one new block.  The blocks mined by the calls   *)
(* cs, each a sequence of [block, hash] naming the mainnet block whose      *)
(* replay sent the transaction.                                             *)
RECURSIVE mined_blocks(_, _, _)
mined_blocks(cs, pool, mined) ==
    IF cs = <<>> THEN mined
    ELSE IF Head(cs).op = "send_raw_transaction" /\ Head(cs).ok
    THEN mined_blocks(Tail(cs), Append(pool, [block |-> Head(cs).block, hash |-> Head(cs).arg]), mined)
    ELSE IF Head(cs).op = "evm_mine" /\ Head(cs).ok
    THEN mined_blocks(Tail(cs), <<>>, Append(mined, pool))
    ELSE mined_blocks(Tail(cs), pool, mined)

-----------------------------------------------------------------------------
(* The parts of the program that a command does not run keep these values *)

NotRun == [ok |-> FALSE, err |-> "NotRun"]

DecoderIdle ==
    /\ event = [inputs |-> <<>>]
    /\ log = [topics |-> <<>>, data |-> <<>>]
    /\ preserve_order = FALSE
    /\ result = NotRun

DeployIdle ==
    /\ contract = <<>> /\ parsed = <<>>
    /\ node_service = "none"
    /\ deploy_result = NotRun

StoreIdle ==
    /\ shadow_json = [state |-> "missing", contracts |-> <<>>]
    /\ store_call = [op |-> "none"]
    /\ store_result = NotRun

EventsIdle == stream = <<>> /\ handled = <<>> /\ stdout = <<>> /\ warnings = <<>>

ForkIdle ==
    /\ all_txs = FALSE
    /\ shadow_contracts = <<>>
    /\ block = [number |-> <<1>>, fetch |-> "ok", base_fee |-> FALSE, transactions |-> <<>>]
    /\ calls = <<>>
    /\ replay_result = NotRun
    /\ blocks = <<>>
    /\ replayed = <<>>

-----------------------------------------------------------------------------
(* decode_log applied to one log under one event schema *)

Init ==
    /\ event \in EventSchemas
    /\ log \in Logs
    /\ preserve_order \in BOOLEAN
    /\ pc = "start"
    /\ result = NotRun
    /\ DeployIdle /\ StoreIdle /\ EventsIdle /\ ForkIdle

DecodeLog ==
    /\ pc = "start"
    /\ result' = decode_log(log, event)
    /\ pc' = "done"
    /\ UNCHANGED <<event, log, preserve_order, DeployVars, StoreVars, EventsVars, ForkVars>>

Next == DecodeLog

Spec == Init /\ [][Next]_vars

-----------------------------------------------------------------------------
(* parse_contract_string applied to the argument of the command *)

InitDeploy ==
    /\ contract \in SeqsUpTo(ContractChars, MaxContractLen)
    /\ parsed = <<>>
    /\ node_service = "none"
    /\ deploy_result = NotRun
    /\ pc = "start"
    /\ DecoderIdle /\ StoreIdle /\ EventsIdle /\ ForkIdle

ParseContractString ==
    /\ pc = "start"
    /\ parsed' = parse_contract_string(contract)
    /\ pc' = "done"
    /\ UNCHANGED <<contract, node_service, deploy_result,
                   DecoderVars, StoreVars, EventsVars, ForkVars>>

(* Deploy::run after parse_contract_string.  The artifact and the Etherscan *)
(* answers are fetched first and any of them may fail ("early"); then the   *)
(* temporary fork is started, the init code is built and                    *)
(* get_runtime_bytecode runs on the fork; abort() of the node service comes *)
(* after its Ok and the println.                                            *)
DeployRun ==
    /\ pc = "done"
    /\ \E early \in {"ok", "ArtifactError", "EtherscanError", "DefaultError", "ProviderError"},
          outcome \in 0..8 :
          IF early # "ok"
          THEN /\ deploy_result' = Err(early)
               /\ pc' = "returned_err"
               /\ UNCHANGED <<node_service, calls>>
          ELSE LET done == get_runtime_bytecode(AddrFrom, outcome)
               IN  /\ calls' = done.calls
                   /\ deploy_result' = done.result
                   /\ node_service' = IF done.result.ok THEN "aborted" ELSE "running"
                   /\ pc' = IF done.result.ok THEN "returned_ok" ELSE "returned_err"
    /\ UNCHANGED <<contract, parsed, all_txs, shadow_contracts, block, replay_result,
                   blocks, replayed, DecoderVars, StoreVars, EventsVars>>

NextDeploy == ParseContractString \/ DeployRun

SpecDeploy == InitDeploy /\ [][NextDeploy]_vars

-----------------------------------------------------------------------------
(* Calls of LocalShadowStore::upsert on one shadow.json *)

InitStore ==
    /\ shadow_json \in {[state |-> "missing", contents |-> <<>>],
                         [state |-> "present", contents |-> <<>>],
                         [state |-> "present", contents |-> <<(<<(<<"address", Chr0x>>)>>)>>]}
    /\ store_call = [op |-> "none"]
    /\ store_result = NotRun
    /\ pc = "start"
    /\ DecoderIdle /\ DeployIdle /\ EventsIdle /\ ForkIdle

Upsert ==
    \E to \in {AddrFrom, AddrTo, SubSeq(WHash, 13, 32)}, code \in {"60", "61"}, write_ok \in BOOLEAN :
        LET shadow_contract == [file_name |-> "A.sol", contract_name |-> "A",
                                address |-> Chr0x \o hex_encode(to), runtime_bytecode |-> code]
            done == upsert(shadow_json, shadow_contract, write_ok)
        IN  /\ shadow_json.state = "present" =>
                  \/ Len(shadow_json.contents) < MaxStored
                  \/ get_by_address(shadow_json, shadow_contract.address).ok
            /\ shadow_json' = done.file
            /\ store_call' = [op |-> "upsert", arg |-> shadow_contract]
            /\ store_result' = done.result
            /\ UNCHANGED <<pc, DecoderVars, DeployVars, EventsVars, ForkVars>>

NextStore == Upsert

SpecStore == InitStore /\ [][NextStore]_vars

-----------------------------------------------------------------------------
(* Events::run on a subscription that delivers up to MaxStream logs *)

InitEvents ==
    /\ event = ETransfer
    /\ preserve_order \in BOOLEAN
    /\ stream \in SeqsUpTo({[log |-> [topics |-> t, data |-> WBig], transaction_hash |-> h] :
                               t \in {<<WSelA, WFrom, WTo>>, <<WSelA, WFrom>>},
                               h \in {<<>>, <<WHash>>}}, MaxStream)
    /\ handled = <<>> /\ stdout = <<>> /\ warnings = <<>>
    /\ log = [topics |-> <<>>, data |-> <<>>]
    /\ result = NotRun
    /\ pc = "start"
    /\ DeployIdle /\ StoreIdle /\ ForkIdle

\* "self.provider.subscribe_logs(&logs_filter).await?"
SubscribeLogs ==
    /\ pc = "start"
    /\ \E subscribed \in BOOLEAN : pc' = IF subscribed THEN "loop" ELSE "returned_err"
    /\ UNCHANGED <<DecoderVars, DeployVars, StoreVars, EventsVars, ForkVars>>

\* one turn of "while let Some(log) = stream.next().await"
OnLog ==
    /\ pc = "loop" /\ stream # <<>>
    /\ LET out == on_log(Head(stream), event)
       IN  /\ handled' = Append(handled, Head(stream))
           /\ stream' = Tail(stream)
           /\ stdout' = stdout \o out.printed
           /\ warnings' = IF out.returns = "Err" THEN Append(warnings, out.err) ELSE warnings
           /\ pc' = IF out.returns = "panic" THEN "panicked" ELSE "loop"
    /\ UNCHANGED <<DecoderVars, DeployVars, StoreVars, ForkVars>>

\* the stream has ended: "Ok(())"
StreamEnd ==
    /\ pc = "loop" /\ stream = <<>>
    /\ pc' = "returned_ok"
    /\ UNCHANGED <<DecoderVars, DeployVars, StoreVars, EventsVars, ForkVars>>

NextEvents == SubscribeLogs \/ OnLog \/ StreamEnd

SpecEvents == InitEvents /\ [][NextEvents]_vars

-----------------------------------------------------------------------------
(* Fork::run on a subscription that delivers up to MaxBlocks blocks *)

InitFork ==
    /\ all_txs \in BOOLEAN
    /\ \E address \in {Chr0x \o hex_encode(AddrTo),
                         Chr0x \o [i \in 1..40 |-> IF hex_encode(AddrTo)[i] > 96
                                                      THEN hex_encode(AddrTo)[i] - 32
                                                      ELSE hex_encode(AddrTo)[i]]} :
          shadow_contracts = <<[file_name |-> "A.sol", contract_name |-> "A",
                                address |-> address, runtime_bytecode |-> "60"]>>
    /\ \E kinds \in SeqsUpTo(({<<>>, <<AddrTo>>, <<AddrFrom>>} \X {"success"})
                               \cup ({<<AddrTo>>} \X {"failed", "no_status", "foreign", "none", "error"}),
                               MaxTxs),
          fetch \in {"ok", "none", "error"}, base_fee \in BOOLEAN, number \in {<<>>, <<1>>} :
          /\ (fetch # "ok" \/ number = <<>>) => (kinds = <<>> /\ ~base_fee)
          /\ number = <<>> => fetch = "ok"
          /\ block = [number |-> number, fetch |-> fetch, base_fee |-> base_fee,
                      transactions |-> [i \in 1..Len(kinds) |->
                                          [hash |-> i, from |-> IF i = 1 THEN AddrFrom ELSE AddrTo,
                                           to |-> kinds[i][1], receipt |-> kinds[i][2]]]]
    /\ \E later \in SeqsUpTo({"ok", "none", "no_number"}, MaxBlocks - 1) :
          blocks = [i \in 1..Len(later) |->
                      [number |-> IF later[i] = "no_number" THEN <<>> ELSE <<i + 1>>,
                       fetch |-> IF later[i] = "none" THEN "none" ELSE "ok", base_fee |-> FALSE,
                       transactions |-> IF later[i] = "ok"
                                        THEN <<[hash |-> 1, from |-> AddrFrom,
                                                to |-> <<AddrTo>>, receipt |-> "success"]>>
                                        ELSE <<>>]]
    /\ calls = <<>>
    /\ replay_result = NotRun
    /\ replayed = <<>>
    /\ pc = "start"
    /\ DecoderIdle /\ DeployIdle /\ StoreIdle /\ EventsIdle

\* Fork::override_contracts: anvil_set_code for every shadow contract, up to
\* the first call that fails; then "self.provider.subscribe_blocks().await?"
OverrideContracts ==
    /\ pc = "start"
    /\ \E fail_at \in 0..Len(shadow_contracts), subscribed \in BOOLEAN :
          LET made == IF fail_at = 0 THEN Len(shadow_contracts) ELSE fail_at
          IN  /\ fail_at # 0 => subscribed
              /\ calls' = [i \in 1..made |-> [op |-> "anvil_set_code",
                                               arg |-> shadow_contracts[i].address,
                                               block |-> <<0>>, ok |-> i # fail_at]]
              /\ pc' = IF fail_at = 0 /\ subscribed THEN "loop" ELSE "returned_err"
    /\ UNCHANGED <<all_txs, shadow_contracts, block, replay_result, blocks, replayed,
                   DecoderVars, DeployVars, StoreVars, EventsVars>>

\* one turn of "while let Some(block) = stream.next().await": the number of
\* the block is unwrapped, then replay_block of the block and the warning for
\* its error
ReplayBlock ==
    /\ pc = "loop"
    /\ IF block.number = <<>>
       THEN /\ pc' = "panicked"
            /\ UNCHANGED <<calls, replay_result, replayed, warnings>>
       ELSE /\ \E fail_at \in 0..(2 * Len(block.transactions) + 3) :
                  LET done == replay_block(all_txs, shadow_contracts, block, fail_at)
                  IN  /\ calls' = calls \o done.calls
                      /\ replay_result' = done.result
                      /\ replayed' = Append(replayed, [number |-> block.number,
                                                       result |-> done.result])
                      /\ warnings' = IF done.result.ok THEN warnings
                                     ELSE Append(warnings, done.result.err)
            /\ pc' = "replayed"
    /\ UNCHANGED <<all_txs, shadow_contracts, block, blocks, stream, handled, stdout,
                   DecoderVars, DeployVars, StoreVars>>

\* stream.next(): the next block of the subscription, or its end and "Ok(())"
NextBlock ==
    /\ pc = "replayed"
    /\ IF blocks # <<>>
       THEN /\ block' = Head(blocks)
            /\ blocks' = Tail(blocks)
            /\ pc' = "loop"
       ELSE /\ pc' = "returned_ok"
            /\ UNCHANGED <<block, blocks>>
    /\ UNCHANGED <<all_txs, shadow_contracts, calls, replay_result, replayed,
                   DecoderVars, DeployVars, StoreVars, EventsVars>>

NextFork == OverrideContracts \/ ReplayBlock \/ NextBlock

SpecFork == InitFork /\ [][NextFork]_vars

-----------------------------------------------------------------------------
(* What the properties are stated with *)

Done == pc = "done"
Decoded == pc = "done" /\ result.ok

NamesDistinct(params) ==
    \A i, j \in 1..Len(params) : params[i].name = params[j].name => i = j

\* names pairwise distinct at every level of the schema
RECURSIVE ValidParams(_)
ValidParams(params) ==
    /\ NamesDistinct(params)
    /\ \A i \in 1..Len(params) : ValidParams(params[i].components)

DeclaredNames == [i \in 1..Len(event.inputs) |-> event.inputs[i].name]

\* the topic words after topic 0
TopicWordsOf(l) == IF l.topics = <<>> THEN <<>> ELSE Tail(l.topics)

\* position of input i among the inputs of its own group (indexed or not)
GroupPos(i) ==
    Cardinality({j \in 1..i : event.inputs[j].indexed = event.inputs[i].indexed})

\* the token decoded for input i of a decoded log
TokenOfInput(i) ==
    IF event.inputs[i].indexed
    THEN ethabi_decode_whole(build_types(indexed_params(event)).v, topic_bytes(log)).v[GroupPos(i)]
    ELSE ethabi_decode(build_types(non_indexed_params(event)).v, log.data).v[GroupPos(i)]

\* the entry of the result for input i
RenderedInput(i) == map_get(result.v.o, event.inputs[i].name)

HexVal(c) == IF c \in 48..57 THEN c - 48 ELSE IF c \in 97..102 THEN c - 87 ELSE -1

\* s is the lowercase hex of bytes, two digits per byte
IsLowerHexOf(s, bytes) ==
    /\ Len(s) = 2 * Len(bytes)
    /\ \A i \in 1..Len(bytes) :
          /\ HexVal(s[2 * i - 1]) >= 0
          /\ HexVal(s[2 * i]) >= 0
          /\ 16 * HexVal(s[2 * i - 1]) + HexVal(s[2 * i]) = bytes[i]

\* s is 0x followed by the lowercase hex of bytes
Is0xHexOf(s, bytes) ==
    /\ Len(s) >= 2
    /\ s[1] = 48 /\ s[2] = 120
    /\ IsLowerHexOf(SubSeq(s, 3, Len(s)), bytes)

\* bytes * 10 + d on big-endian bytes; <<>> when it does not fit
TimesTenPlus(bytes, d) ==
    LET n == Len(bytes)
        carry[i \in 1..(n + 1)] == IF i = n + 1 THEN d ELSE (bytes[i] * 10 + carry[i + 1]) \div 256
    IN  IF carry[1] # 0 THEN <<>>
        ELSE [i \in 1..n |-> (bytes[i] * 10 + carry[i + 1]) % 256]

\* the 32-byte word a string of decimal digits denotes
RECURSIVE DecimalWord(_, _)
DecimalWord(s, acc) ==
    IF s = <<>> \/ acc = <<>> THEN acc
    ELSE DecimalWord(Tail(s), TimesTenPlus(acc, Head(s) - 48))

\* s is the base-10 string of the unsigned value of bytes, without leading zero
IsDecimalOf(s, bytes) ==
    /\ Len(s) >= 1
    /\ \A i \in 1..Len(s) : s[i] \in 48..57
    /\ Len(s) > 1 => s[1] # 48
    /\ DecimalWord(s, ZeroBytes(Len(bytes))) = bytes

IsScalarToken(token) ==
    token.t \in {"Address", "Bytes", "FixedBytes", "Uint", "Bool", "String"}

\* the canonical string of a scalar token
CanonicalScalar(s, token) ==
    CASE token.t = "Address" ->
            Len(s) = 42 /\ Is0xHexOf(s, token.b)
      [] token.t \in {"Bytes", "FixedBytes"} -> IsLowerHexOf(s, token.b)
      [] token.t = "Uint" -> IsDecimalOf(s, token.b)
      [] token.t = "Bool" -> s = (IF token.b = <<1>> THEN <<116, 114, 117, 101>> ELSE <<102, 97, 108, 115, 101>>)
      [] token.t = "String" -> s = token.b
      [] OTHER -> FALSE

RendersScalar(value, token) == value.j = "str" /\ CanonicalScalar(value.s, token)

-----------------------------------------------------------------------------
(* C1: the keys of a decoded log are in the declaration order of the        *)
(* parameters of the schema, indexed and non-indexed interleaved as         *)
(* declared                                                                 *)
C1_KeysInDeclarationOrder ==
    (Decoded /\ ValidParams(event.inputs)) => map_keys(result.v.o) = DeclaredNames

(* C2: indexed parameters all address, non-indexed all uint256, one topic   *)
(* word per indexed parameter and one data word per non-indexed one: each   *)
(* indexed name has 0x and the lowercase hex of the low 20 bytes of its     *)
(* topic word, each non-indexed name the decimal string of its data word    *)
TransferLike ==
    /\ ValidParams(event.inputs)
    /\ \A i \in 1..Len(event.inputs) :
          /\ event.inputs[i].components = <<>>
          /\ event.inputs[i].ty = (IF event.inputs[i].indexed THEN SAddress ELSE SUint256)
    /\ Len(log.topics) = 1 + Len(indexed_params(event))
    /\ Len(log.data) = 32 * Len(non_indexed_params(event))

C2_TransferLikeValues ==
    (Done /\ TransferLike) =>
        /\ result.ok
        /\ Len(result.v.o) = Len(event.inputs)
        /\ \A i \in 1..Len(event.inputs) :
              LET r == RenderedInput(i)
                  n == GroupPos(i)
              IN  /\ r.j = "str"
                  /\ IF event.inputs[i].indexed
                     THEN Is0xHexOf(r.s, SubSeq(log.topics[n + 1], 13, 32))
                     ELSE IsDecimalOf(r.s, SubSeq(log.data, 32 * n - 31, 32 * n))

C2_Witness ==
    /\ Done /\ TransferLike /\ event = ETransfer
    /\ log = [topics |-> <<WSelA, WFrom, WTo>>, data |-> WBig]
    /\ result.ok
    /\ map_get(result.v.o, "value").s = <<54, 57, 48, 48, 48, 48, 48, 48, 48, 48, 48, 48, 48, 48, 48, 48, 48, 48, 48, 48>>

(* C3: a tuple[] parameter with components whose value has N elements       *)
(* renders as a list of N maps in element order; each map has the component *)
(* names as keys, each with the rendering of the field at its position      *)
IsTupleArrayParam(p) == p.ty = STupleArray /\ Len(p.components) > 0

C3_TupleArrayRendering ==
    (Decoded /\ ValidParams(event.inputs)) =>
        \A i \in 1..Len(event.inputs) :
            (IsTupleArrayParam(event.inputs[i]) /\ TokenOfInput(i).t = "Array") =>
                LET comps == event.inputs[i].components
                    tok == TokenOfInput(i)
                    r == RenderedInput(i)
                IN  /\ r.j = "arr"
                    /\ Len(r.a) = Len(tok.a)
                    /\ \A e \in 1..Len(tok.a) :
                          /\ r.a[e].j = "obj"
                          /\ Len(r.a[e].o) = Len(comps)
                          /\ \A c \in 1..Len(comps) :
                                /\ map_has(r.a[e].o, comps[c].name)
                                /\ RendersScalar(map_get(r.a[e].o, comps[c].name), tok.a[e].a[c])

C3_Witness ==
    /\ Decoded /\ event = ETupleArray
    /\ Len(map_get(result.v.o, "offer").a) = 2
    /\ map_get(map_get(result.v.o, "offer").a[2].o, "itemType").s = <<50>>

(* C4: with pairwise distinct parameter names the result has one entry per  *)
(* parameter, and every entry of decode_topics and of decode_data is in it  *)
(* with its value                                                           *)
C4_MergeKeepsEveryEntry ==
    (Decoded /\ NamesDistinct(event.inputs)) =>
        LET t == decode_topics(log, event).v.o
            d == decode_data(log, event).v.o
        IN  /\ Len(result.v.o) = Len(event.inputs)
            /\ \A i \in 1..Len(t) : map_has(result.v.o, t[i].k) /\ map_get(result.v.o, t[i].k) = t[i].v
            /\ \A i \in 1..Len(d) : map_has(result.v.o, d[i].k) /\ map_get(result.v.o, d[i].k) = d[i].v

C4_Witness ==
    /\ Decoded /\ event = EInterleaved
    /\ Len(result.v.o) = 3
    /\ Len(decode_topics(log, event).v.o) = 1
    /\ Len(decode_data(log, event).v.o) = 2

(* C5: an indexed and a non-indexed parameter of one name make decode_log   *)
(* fail; no map is returned in which one value replaced or absorbed the     *)
(* other                                                                    *)
HasCollision ==
    \E i, j \in 1..Len(event.inputs) :
        /\ event.inputs[i].indexed /\ ~event.inputs[j].indexed
        /\ event.inputs[i].name = event.inputs[j].name

C5_CollisionFails == (Done /\ HasCollision) => ~result.ok

(* C6: fewer topic words after topic 0 than indexed parameters make         *)
(* decode_log fail                                                          *)
C6_TruncatedTopicsFail ==
    (Done /\ Len(TopicWordsOf(log)) < Len(indexed_params(event))) => ~result.ok

C6_Witness ==
    /\ Done /\ event = ETransfer
    /\ log.topics = <<WSelA, WFrom>>
    /\ ~result.ok

(* C7: an indexed parameter of dynamic type is its topic word taken as an   *)
(* opaque 32-byte value, never an offset / length encoding                  *)
IsDynamicIndexed(p) ==
    /\ p.indexed
    /\ to_eth_abi_param_type(p).ok
    /\ to_eth_abi_param_type(p).v.t \in {"String", "Bytes", "Array", "Tuple"}

C7_IndexedDynamicIsOpaque ==
    (Done /\ Len(TopicWordsOf(log)) = Len(indexed_params(event))) =>
        \A n \in 1..Len(indexed_params(event)) :
            IsDynamicIndexed(indexed_params(event)[n]) =>
                LET t == decode_topics(log, event)
                    r == map_get(t.v.o, indexed_params(event)[n].name)
                IN  /\ t.ok
                    /\ r.j = "str"
                    /\ IsLowerHexOf(r.s, log.topics[n + 1]) \/ Is0xHexOf(r.s, log.topics[n + 1])

(* C8: a scalar token renders by the canonical rules: address as 0x and 40  *)
(* lowercase hex digits, bytes and fixed bytes as lowercase hex without 0x, *)
(* uint as its exact decimal string, bool as true / false, string as itself *)
C8_ScalarRendering ==
    (Decoded /\ NamesDistinct(event.inputs)) =>
        \A i \in 1..Len(event.inputs) :
            (event.inputs[i].components = <<>> /\ IsScalarToken(TokenOfInput(i))) =>
                RendersScalar(RenderedInput(i), TokenOfInput(i))

C8_Witness ==
    /\ Decoded /\ event = EScalars
    /\ log.topics = <<WSelA, W1, WHi>>
    /\ map_get(result.v.o, "x").s = <<116, 114, 117, 101>>
    /\ map_get(result.v.o, "y").s = <<54, 56, 54, 57>>

(* C9: a dynamic array of scalars without components renders as a list of   *)
(* one string per element, each the canonical string of that element        *)
C9_ArrayElementsCanonical ==
    (Decoded /\ NamesDistinct(event.inputs)) =>
        \A i \in 1..Len(event.inputs) :
            LET tok == TokenOfInput(i)
                r == RenderedInput(i)
            IN  (/\ event.inputs[i].components = <<>>
                 /\ tok.t = "Array"
                 /\ \A e \in 1..Len(tok.a) : IsScalarToken(tok.a[e])) =>
                    /\ r.j = "arr"
                    /\ Len(r.a) = Len(tok.a)
                    /\ \A e \in 1..Len(tok.a) : RendersScalar(r.a[e], tok.a[e])

(* C10: a plain tuple parameter with components renders as one map: field i *)
(* goes with component i, is rendered recursively and is stored under the   *)
(* name of that component                                                   *)
IsTupleParam(p) == p.ty = STuple /\ Len(p.components) > 0

C10_TupleRendering ==
    (Decoded /\ ValidParams(event.inputs)) =>
        \A i \in 1..Len(event.inputs) :
            IsTupleParam(event.inputs[i]) =>
                LET comps == event.inputs[i].components
                    tok == TokenOfInput(i)
                    r == RenderedInput(i)
                IN  /\ tok.t = "Tuple"
                    /\ Len(tok.a) = Len(comps)
                    /\ r.j = "obj"
                    /\ Len(r.o) = Len(comps)
                    /\ \A c \in 1..Len(comps) :
                          /\ map_has(r.o, comps[c].name)
                          /\ map_get(r.o, comps[c].name) = to_value(comps[c], tok.a[c])
                          /\ comps[c].components = <<>> =>
                                RendersScalar(map_get(r.o, comps[c].name), tok.a[c])

C10_Witness ==
    /\ Decoded /\ event = ENested
    /\ map_get(result.v.o, "x").j = "obj"
    /\ Len(map_get(map_get(result.v.o, "x").o, "offer").a) = 1
    /\ map_get(map_get(result.v.o, "x").o, "amount").j = "str"

(* C11: a parameter with components resolves to Array(Tuple(the types of    *)
(* its components in order)) when its type string ends in "[]" and to      *)
(* Tuple(those types) when its type string is the bare "tuple"; a          *)
(* parameter without components resolves to what its type string parses to *)
RECURSIVE ParamsOf(_)
\* the parameters of a list and of their components, at every nesting level
ParamsOf(params) ==
    UNION {{params[i]} \cup ParamsOf(params[i].components) : i \in 1..Len(params)}

ComponentsResolve(p) == \A i \in 1..Len(p.components) : to_dyn_sol_type(p.components[i]).ok

ComponentTypes(p) == [i \in 1..Len(p.components) |-> to_dyn_sol_type(p.components[i]).v]

C11_ResolvedShape ==
    Done =>
        \A p \in ParamsOf(event.inputs) :
            /\ (Len(p.components) > 0 /\ ComponentsResolve(p) /\ ends_with_brackets(p.ty)) =>
                  to_dyn_sol_type(p) = Ok(TArray(TTuple(ComponentTypes(p))))
            /\ (Len(p.components) > 0 /\ ComponentsResolve(p) /\ p.ty = STuple) =>
                  to_dyn_sol_type(p) = Ok(TTuple(ComponentTypes(p)))
            /\ Len(p.components) = 0 =>
                  to_dyn_sol_type(p) = parse(p.ty)

C11_Witness ==
    /\ Decoded /\ event = ENested
    /\ to_dyn_sol_type(event.inputs[1]) = Ok(TTuple(<<TUint(256), TArray(TTuple(<<TAddress>>))>>))

(* C12: a parameter whose type string ends in "[N]" resolves, with or       *)
(* without components, to FixedArray(element type, N)                      *)
EndsWithFixed(ty) == ty.dims # <<>> /\ ty.dims[Len(ty.dims)] > 0

C12_FixedArrayResolved ==
    Done =>
        \A p \in ParamsOf(event.inputs) :
            (EndsWithFixed(p.ty) /\ to_dyn_sol_type(p).ok) =>
                /\ to_dyn_sol_type(p).v.t = "FixedArray"
                /\ to_dyn_sol_type(p).v.n = p.ty.dims[Len(p.ty.dims)]
                /\ to_eth_abi_param_type(p).v.t = "FixedArray"

(* C13: a parameter, at any nesting level, whose type string is not of the  *)
(* grammar (unknown word, intN / uintN with N no multiple of 8 in 8..256,   *)
(* bytesN with N outside 1..32) makes decode_log fail                      *)
RecognizedType(ty) ==
    \/ ty.k \in {"address", "bool", "string", "tuple"} /\ ty.n = 0
    \/ ty.k = "bytes" /\ ty.n \in 0..32
    \/ ty.k \in {"int", "uint"} /\ (ty.n = 0 \/ (ty.n \in 8..256 /\ ty.n % 8 = 0))

C13_UnrecognizedTypeFails ==
    (Done /\ \E p \in ParamsOf(event.inputs) : ~RecognizedType(p.ty)) => ~result.ok

(* C14: in Events::run a log whose decoding fails is reported by one        *)
(* warning, and after such a log the loop still takes every later log: it   *)
(* has ended only when the stream has                                      *)
DecodeFails(l) == ~decode_log(l.log, event).ok

C14_LoopSurvivesDecodeFailure ==
    /\ Len(warnings) = Cardinality({i \in 1..Len(handled) : DecodeFails(handled[i])})
    /\ ((\E i \in 1..Len(handled) : DecodeFails(handled[i])) /\ pc \notin {"start", "loop"}) =>
          stream = <<>>

(* C15: decode_log has no partial result: it returns a map with one entry   *)
(* for every parameter of the schema, or an error that carries no map       *)
C15_NoPartialResult ==
    Done =>
        IF result.ok
        THEN /\ result.v.j = "obj"
             /\ Len(result.v.o) = Len(event.inputs)
             /\ \A i \in 1..Len(event.inputs) : map_has(result.v.o, event.inputs[i].name)
        ELSE DOMAIN result = {"ok", "err"}

(* C16: a schema with two parameters of one name at one level (indexed,     *)
(* non-indexed or components of one tuple) is not decoded: decode_log fails *)
C16_DuplicateNamesRejected ==
    (Done /\ ~ValidParams(event.inputs)) => ~result.ok

(* C17: topic 0 is no parameter value: a log that differs from the decoded  *)
(* one in topic 0 only has the same result under the same schema            *)
C17_Topic0Ignored ==
    (Done /\ log.topics # <<>>) =>
        \A sel \in Selectors :
            decode_log([log EXCEPT !.topics[1] = sel], event) = result

C17_Witness ==
    /\ Decoded /\ event = ETransfer
    /\ log.topics = <<WSelA, WFrom, W0>>
    /\ decode_log([log EXCEPT !.topics[1] = WSelB], event) = result
    /\ Len(map_get(result.v.o, "from").s) = 42

(* C18: without all_txs every transaction sent to the fork has a `to` that  *)
(* is the address of a shadow contract and a receipt of status 1; with      *)
(* all_txs a replay that succeeds has sent every transaction of the block,  *)
(* in the order of the block                                                *)
Sent == SelectSeq(calls, LAMBDA call : call.op = "send_raw_transaction" /\ call.block = block.number)

C18_OnlyShadowedSuccessfulSent ==
    /\ ~all_txs =>
          \A k \in 1..Len(Sent) :
              LET tx == block.transactions[Sent[k].arg]
              IN  /\ tx.to # <<>>
                  /\ \E i \in 1..Len(shadow_contracts) :
                        Is0xHexOf(shadow_contracts[i].address, tx.to[1])
                  /\ tx.receipt = "success"
    /\ (all_txs /\ pc = "replayed" /\ replay_result.ok) =>
          [k \in 1..Len(Sent) |-> Sent[k].arg] = [i \in 1..Len(block.transactions) |-> i]

C18_Witness ==
    /\ ~all_txs /\ pc = "replayed" /\ replay_result.ok
    /\ Len(block.transactions) = 2
    /\ block.transactions[1].receipt = "failed"
    /\ block.transactions[1].to = <<AddrTo>>
    /\ Len(Sent) = 1 /\ Sent[1].arg = 2

(* C19: a successful upsert(c) puts c in the place of the stored contract   *)
(* of its address when there is one and appends c otherwise; every other    *)
(* contract keeps its value and position, and get_by_address(c.address)     *)
(* then returns c                                                           *)
UpsertEffect ==
    LET old == read_from_file(shadow_json).result.v
        new == from_str(shadow_json'.contents).v
        c == store_call'.arg
        stored == {i \in 1..Len(old) : old[i].address = c.address}
    IN  /\ read_from_file(shadow_json).result.ok
        /\ shadow_json'.state = "present"
        /\ from_str(shadow_json'.contents).ok
        /\ IF stored # {}
           THEN /\ Len(new) = Len(old)
                /\ \E i \in stored : new[i] = c
                /\ \A i \in 1..Len(old) : i \notin stored => new[i] = old[i]
                /\ Cardinality({i \in 1..Len(new) : new[i] # old[i]}) <= 1
           ELSE new = Append(old, c)
        /\ get_by_address(shadow_json', c.address) = Ok(c)

C19_UpsertReplacesOrAppends ==
    [][(store_call'.op = "upsert" /\ store_result'.ok) => UpsertEffect]_vars

C19_Witness ==
    /\ store_call.op = "upsert" /\ store_result.ok
    /\ shadow_json.state = "present"
    /\ Len(shadow_json.contents) = 2
    /\ from_str(shadow_json.contents).v[1] = store_call.arg
    /\ store_call.arg.runtime_bytecode = "61"

(* C20: for an argument with a colon parse_contract_string returns what is  *)
(* before the first colon as file name and all that follows it as contract  *)
(* name; without a colon the whole argument is the file name and what is    *)
(* before its first dot the contract name                                   *)
HasChr(s, c) == \E i \in 1..Len(s) : s[i] = c

C20_ParseContractString ==
    (pc = "done" /\ parsed # <<>>) =>
        LET file_name == parsed[1]
            contract_name == parsed[2]
        IN  IF HasChr(contract, ChrColon)
            THEN /\ ~HasChr(file_name, ChrColon)
                 /\ file_name \o <<ChrColon>> \o contract_name = contract
            ELSE /\ file_name = contract
                 /\ ~HasChr(contract_name, ChrDot)
                 /\ IF HasChr(contract, ChrDot)
                    THEN SubSeq(contract, 1, Len(contract_name) + 1) = contract_name \o <<ChrDot>>
                    ELSE contract_name = contract

C20_Witness ==
    /\ pc = "done"
    /\ contract = <<97, ChrColon, 97, ChrColon>>
    /\ parsed = <<(<<97>>), <<97, ChrColon>>>>

(* C21: a parameter without components whose decoded value is an array of *)
(* fixed size of scalars renders as a list with one string per element, as  *)
(* an array of dynamic size does, and not as one bracketed string           *)
C21_FixedArrayRendersList ==
    Decoded =>
        \A i \in 1..Len(event.inputs) :
            (/\ event.inputs[i].components = <<>>
             /\ TokenOfInput(i).t = "FixedArray"
             /\ \A k \in 1..Len(TokenOfInput(i).a) : TokenOfInput(i).a[k].a = <<>>) =>
                /\ RenderedInput(i).j = "arr"
                /\ Len(RenderedInput(i).a) = Len(TokenOfInput(i).a)
                /\ \A k \in 1..Len(RenderedInput(i).a) : RenderedInput(i).a[k].j = "str"

(* C22: a value of an int type renders as the base-10 string of the signed  *)
(* integer its two's-complement word stands for, with a minus sign when the *)
(* top bit is set: the all-ones int256 renders as "-1"                      *)
TrailingZeros(bytes) ==
    Cardinality({k \in 1..Len(bytes) : \A i \in (Len(bytes) - k + 1)..Len(bytes) : bytes[i] = 0})

\* the two's complement of a word that is not zero
Negated(bytes) ==
    LET last == Len(bytes) - TrailingZeros(bytes)
    IN  [i \in 1..Len(bytes) |->
            IF i > last THEN 0 ELSE IF i = last THEN 256 - bytes[i] ELSE 255 - bytes[i]]

IsSignedDecimalOf(s, bytes) ==
    IF bytes[1] >= 128
    THEN Len(s) >= 2 /\ s[1] = 45 /\ IsDecimalOf(Tail(s), Negated(bytes))
    ELSE IsDecimalOf(s, bytes)

C22_IntRendersSigned ==
    Decoded =>
        \A i \in 1..Len(event.inputs) :
            TokenOfInput(i).t = "Int" =>
                /\ RenderedInput(i).j = "str"
                /\ IsSignedDecimalOf(RenderedInput(i).s, TokenOfInput(i).b)

(* C23: when every indexed parameter is of a static type and the log has   *)
(* more topic words after topic 0 than the schema has indexed parameters,   *)
(* decode_log fails: the surplus words are not ignored                      *)
StaticIndexed ==
    /\ build_types(indexed_params(event)).ok
    /\ \A i \in 1..Len(indexed_params(event)) :
          ~is_dynamic(build_types(indexed_params(event)).v[i])

C23_SurplusTopicsFail ==
    (Done /\ StaticIndexed /\ Len(log.topics) - 1 > Len(indexed_params(event))) => ~result.ok

(* C24: a parameter with components keeps the array nesting of its type     *)
(* string: "tuple[][]" resolves to Array(Array(Tuple(components))), and a   *)
(* decoded value of it renders as a list of lists of maps                   *)
IsNestedTupleParam(p) ==
    /\ Len(p.components) > 0 /\ ComponentsResolve(p)
    /\ p.ty.k = "tuple" /\ p.ty.n = 0
    /\ \A d \in 1..Len(p.ty.dims) : p.ty.dims[d] = 0

RECURSIVE ListsOfMaps(_, _)
ListsOfMaps(value, depth) ==
    IF depth = 0 THEN value.j = "obj"
    ELSE value.j = "arr" /\ \A k \in 1..Len(value.a) : ListsOfMaps(value.a[k], depth - 1)

C24_NestingPreserved ==
    /\ Done =>
          \A p \in ParamsOf(event.inputs) :
              IsNestedTupleParam(p) =>
                  to_dyn_sol_type(p) = Ok(wrap_dims(TTuple(ComponentTypes(p)), p.ty.dims))
    /\ Decoded =>
          \A i \in 1..Len(event.inputs) :
              IsNestedTupleParam(event.inputs[i]) =>
                  ListsOfMaps(RenderedInput(i), Len(event.inputs[i].ty.dims))

(* C25: for every log delivered to Events::run, on_log returns Ok or Err     *)
(* and the loop goes on; a log that decodes and carries no transaction hash *)
(* is such a log, and the subscription ends only with the stream            *)
C25_EveryLogReturns ==
    /\ pc # "panicked"
    /\ pc = "returned_ok" => stream = <<>>
    /\ \A i \in 1..Len(handled) :
          on_log(handled[i], event).returns \in {"Ok", "Err"}

(* C26: a replay_block that succeeds has called the fork in this order:    *)
(* the base fee of the next block when the block has one and its timestamp, *)
(* both before any transaction; the replayed transactions in the order of   *)
(* the block, each right after the balance of its sender was set; evm_mine  *)
(* once, as the last call                                                   *)
BlockCalls == SelectSeq(calls, LAMBDA call : call.block = block.number)

OpsAt(cs, op) == {k \in 1..Len(cs) : cs[k].op = op}

C26_CallOrder ==
    (pc = "replayed" /\ replay_result.ok) =>
        LET cs == BlockCalls
            sends == OpsAt(cs, "send_raw_transaction")
            setup == OpsAt(cs, "anvil_set_next_block_base_fee_per_gas")
                        \cup OpsAt(cs, "evm_set_next_block_timestamp")
        IN  /\ \A k \in 1..Len(cs) : cs[k].ok
            /\ Cardinality(OpsAt(cs, "evm_set_next_block_timestamp")) = 1
            /\ Cardinality(OpsAt(cs, "anvil_set_next_block_base_fee_per_gas"))
                  = IF block.base_fee THEN 1 ELSE 0
            /\ \A k \in setup : \A t \in sends \cup OpsAt(cs, "anvil_set_balance") : k < t
            /\ \A t \in sends :
                  /\ t > 1
                  /\ cs[t - 1].op = "anvil_set_balance"
                  /\ cs[t - 1].arg = block.transactions[cs[t].arg].from
            /\ \A t, u \in sends : t < u => cs[t].arg < cs[u].arg
            /\ OpsAt(cs, "evm_mine") = {Len(cs)}

C26_Witness ==
    /\ pc = "replayed" /\ replay_result.ok
    /\ block.base_fee
    /\ Len(block.transactions) = 2
    /\ [k \in 1..Len(BlockCalls) |-> BlockCalls[k].op]
          = <<"anvil_set_next_block_base_fee_per_gas", "evm_set_next_block_timestamp",
              "anvil_set_balance", "send_raw_transaction",
              "anvil_set_balance", "send_raw_transaction", "evm_mine">>

(* C27: every block mined on the fork holds transactions of one mainnet     *)
(* block only: a transaction sent in the replay of block N is never mined   *)
(* together with one sent in the replay of a later block, whatever call     *)
(* fails in between                                                         *)
C27_OneMainnetBlockPerForkBlock ==
    \A m \in 1..Len(mined_blocks(calls, <<>>, <<>>)) :
        LET mined == mined_blocks(calls, <<>>, <<>>)[m]
        IN  \A i, j \in 1..Len(mined) : mined[i].block = mined[j].block

(* C28: in Fork::run the bytecode of every shadow contract is set before    *)
(* the first block is replayed; a replay_block that fails is logged and     *)
(* does not end the loop: every block delivered after it is passed to       *)
(* replay_block, and the loop ends only with the stream                     *)
C28_OverrideThenReplayAll ==
    /\ replayed # <<>> =>
          \A i \in 1..Len(shadow_contracts) :
              \E k \in 1..Len(calls) :
                  /\ calls[k] = [op |-> "anvil_set_code", arg |-> shadow_contracts[i].address,
                                 block |-> <<0>>, ok |-> TRUE]
                  /\ \A j \in 1..Len(calls) : calls[j].block # <<0>> => k < j
    /\ Len(warnings) = Cardinality({i \in 1..Len(replayed) : ~replayed[i].result.ok})
    /\ ((\E i \in 1..Len(replayed) : ~replayed[i].result.ok) /\ pc \notin {"loop", "replayed"}) =>
          (pc = "returned_ok" /\ blocks = <<>>)

(* C29: when the block cannot be fetched, or the fetch of a receipt fails   *)
(* or gives no receipt, replay_block returns an error before any call to    *)
(* the fork, with all_txs too                                               *)
FetchFails(b) ==
    \/ b.fetch # "ok"
    \/ \E i \in 1..Len(b.transactions) : b.transactions[i].receipt \in {"none", "error"}

C29_FetchFailureMakesNoCall ==
    (pc = "replayed" /\ FetchFails(block)) => (~replay_result.ok /\ BlockCalls = <<>>)

C29_Witness ==
    /\ all_txs /\ pc = "replayed"
    /\ Len(block.transactions) = 2
    /\ block.transactions[1].receipt = "success"
    /\ block.transactions[2].receipt = "none"
    /\ replay_result = Err("Receipt not found.")
    /\ Len(calls) = 1 /\ calls[1].op = "anvil_set_code"

(* C30: whenever Deploy::run has started the temporary fork, the node      *)
(* service of the fork has been aborted when run returns, with Ok and with  *)
(* every error of a balance, impersonation, send, mine, receipt or code     *)
(* call                                                                     *)
C30_ForkAbortedOnReturn ==
    pc \in {"returned_ok", "returned_err"} => node_service # "running"

====
